---- MODULE Spec2Model ----
(***************************************************************************)
(* A model of the point R-tree of src/src/rtree.rs, of the geometric order *)
(* relations of src/src/geometry.rs it is built on, and of the rover game  *)
(* of src/src/game.rs that stores its dust in the tree.                    *)
(*                                                                         *)
(* Rust's Option<T> is modelled as a sequence of length at most one:       *)
(* None is <<>>, Some(v) is <<v>>.  Option<Ordering> is one of the strings *)
(* "Less", "Equal", "Greater", or "None" for incomparable.                 *)
(***************************************************************************)
EXTENDS Integers, Sequences, FiniteSets, TLC

VARIABLES
    fill_factor,   \* RTree.fill_factor
    root,          \* RTree.root : Option<Node>
    before,        \* RTree.root as it was when the last insert was called
    calls,         \* history of the insert calls made: <<[point, value], ...>>
    op,            \* the public call that returned last
    arg,           \* its point argument (Option)
    ret,           \* its return value (Option<Value>)
    gop,           \* geometry harness: the comparison applied last
    gp,            \* geometry harness: left operand (a Point)
    gq,            \* geometry harness: right operand (a Point)
    gres,          \* geometry harness: the results of the comparison
    tcall,         \* tile harness: the operation applied last
    ta,            \* tile harness: left operand (a Tile)
    tb,            \* tile harness: right operand (a Tile)
    tp,            \* tile harness: point operand
    tres,          \* tile harness: the results of the operation
    ncall,         \* node harness: the operation applied last
    nfill,         \* node harness: the fill_factor argument
    nnode,         \* node harness: the node the operation is applied to
    npoint,        \* node harness: the point argument
    nres,          \* node harness: the results of the operation
    game,          \* Option<GameMap>: [rover, dust_map, grid_top]
    gcall,         \* the GameMap call that returned last
    dust,          \* the dust vector GameMap::new was given
    cleaned,       \* the dust points the rover stood on in earlier paths
    path,          \* the positions of the rover after each move of the last path
    count,         \* the return value of the last move_rover_path
    gargs,         \* what the last call worked on: grid_top and rover (the
                   \* arguments of GameMap::new, the fields of self at the
                   \* call of move_rover_path) and the moves given
    scall,         \* split harness: the operation applied last
    sfill,         \* split harness: the fill_factor argument
    snode,         \* split harness: the node the operation is applied to
    sline,         \* split harness: the line given to partition (Option)
    sres           \* split harness: the results of the operation

facadeVars == <<fill_factor, root, before, calls, op, arg, ret>>
geomVars == <<gop, gp, gq, gres>>
tileVars == <<tcall, ta, tb, tp, tres>>
nodeVars == <<ncall, nfill, nnode, npoint, nres>>
gameVars == <<game, gcall, dust, cleaned, path, count, gargs>>
splitVars == <<scall, sfill, snode, sline, sres>>
harnessVars == <<geomVars, tileVars, nodeVars, gameVars, splitVars>>
vars == <<facadeVars, geomVars, tileVars, nodeVars, gameVars, splitVars>>

----------------------------------------------------------------------------
(* Bounds of the model *)

\* coordinates of the points given to the facade range over 0..MaxCoord
MaxCoord == 1
\* number of RTree.insert calls in one run
MaxInserts == 3
\* with_radix(n) is called with n in 0..MaxRadix (radix is a usize, and
\* with_radix checks nothing)
MaxRadix == 2
\* coordinates of the operands of the geometry harness range over 0..MaxGeom
MaxGeom == 5
\* coordinates of the corners of the tile harness range over 0..MaxTile
MaxTile == 3
\* coordinates of the leaves of the node harness range over 0..MaxNodeCoord
MaxNodeCoord == 2
\* coordinates of the grid corner, the rover and the dust given to
\* GameMap::new range over 0..MaxGame
MaxGame == 1
MaxSplitX == 2
MaxSplitY == 1

(* Program constants *)

\* RTree::new() sets fill_factor to 4
DefaultFillFactor == 4

----------------------------------------------------------------------------
(* Option and Ordering *)

None == <<>>
Some(v) == <<v>>
IsSome(o) == o # <<>>
Unwrap(o) == o[1]

\* Ord::cmp on a coordinate type
cmp(a, b) == IF a < b THEN "Less" ELSE IF a > b THEN "Greater" ELSE "Equal"

\* the closure of Node::partial_cmp and the match of Point::partial_cmp(&Tile):
\* Less and Greater are exchanged, Equal and None are kept
Reverse(o) ==
    IF o = "Less" THEN "Greater" ELSE IF o = "Greater" THEN "Less" ELSE o

----------------------------------------------------------------------------
(* geometry.rs: Point *)

Point_new(x, y) == [x |-> x, y |-> y]

Point_eq(a, b) == a.x = b.x /\ a.y = b.y

\* Point::partial_cmp with the last two tests joined by || instead of &&
Point_partial_cmp_either(a, b) ==
    IF a.x = b.x THEN cmp(a.y, b.y)
    ELSE IF a.y = b.y THEN cmp(a.x, b.x)
    ELSE IF a.x < b.x \/ a.y < b.y THEN "Less"
    ELSE IF a.x > b.x \/ a.y > b.y THEN "Greater"
    ELSE "None"

Point_partial_cmp(a, b) ==
    IF a.x = b.x THEN cmp(a.y, b.y)
    ELSE IF a.y = b.y THEN cmp(a.x, b.x)
    ELSE IF a.x < b.x /\ a.y < b.y THEN "Less"
    ELSE IF a.x > b.x /\ a.y > b.y THEN "Greater"
    ELSE "None"

\* the provided methods of PartialOrd, all defined from partial_cmp
Point_lt(a, b) == Point_partial_cmp(a, b) = "Less"
Point_le(a, b) == Point_partial_cmp(a, b) \in {"Less", "Equal"}
Point_gt(a, b) == Point_partial_cmp(a, b) = "Greater"
Point_ge(a, b) == Point_partial_cmp(a, b) \in {"Greater", "Equal"}

----------------------------------------------------------------------------
(* geometry.rs: Tile *)

Tile_from_point(p) == [bottom |-> p, top |-> p]

Min(a, b) == IF a <= b THEN a ELSE b
Max(a, b) == IF a >= b THEN a ELSE b

Tile_union(a, b) ==
    [top    |-> [x |-> Max(a.top.x, b.top.x), y |-> Max(a.top.y, b.top.y)],
     bottom |-> [x |-> Min(a.bottom.x, b.bottom.x),
                 y |-> Min(a.bottom.y, b.bottom.y)]]

\* fold(None, |acc, tile| acc.map(|t| t.union(tile)).or(Some(tile)))
RECURSIVE bounding_tile(_)
bounding_tile(tiles) ==
    IF tiles = <<>> THEN None
    ELSE LET acc == bounding_tile(SubSeq(tiles, 1, Len(tiles) - 1))
             tile == tiles[Len(tiles)]
         IN  IF IsSome(acc) THEN Some(Tile_union(Unwrap(acc), tile))
             ELSE Some(tile)

\* impl PartialEq<Point> for Tile
Tile_eq_Point(t, p) == Point_eq(t.top, t.bottom) /\ Point_eq(t.top, p)

\* impl PartialOrd<Point> for Tile with the box taken without its boundary
Tile_partial_cmp_Point_open(t, p) ==
    IF Tile_eq_Point(t, p) THEN "Equal"
    ELSE IF Point_gt(p, t.bottom) /\ Point_lt(p, t.top) THEN "Greater"
    ELSE "Less"

\* impl PartialOrd<Point> for Tile
Tile_partial_cmp_Point(t, p) ==
    IF Tile_eq_Point(t, p) THEN "Equal"
    ELSE IF Point_ge(p, t.bottom) /\ Point_le(p, t.top) THEN "Greater"
    ELSE "Less"

\* impl PartialOrd<Tile> for Point
Point_partial_cmp_Tile(p, t) == Reverse(Tile_partial_cmp_Point(t, p))

\* p <= tile, the provided method of PartialOrd<Tile> for Point
Point_le_Tile(p, t) == Point_partial_cmp_Tile(p, t) \in {"Less", "Equal"}

\* Tile::new with the assertion bottom < top
Tile_new_strict(bottom, top) ==
    [tile  |-> [bottom |-> bottom, top |-> top],
     panic |-> ~Point_lt(bottom, top)]

\* Tile::new: assert!(bottom <= top), then the tile with these corners
Tile_new(bottom, top) ==
    [tile  |-> [bottom |-> bottom, top |-> top],
     panic |-> ~Point_le(bottom, top)]

bottom_left_corner(t) == t.bottom
top_right_corner(t) == t.top

\* the match shared by Tile::vertical_cmp and Tile::horizontal_cmp
TileSides(order_left, order_right) ==
    IF order_left = "Less" /\ order_right = "Less" THEN "Less"
    ELSE IF order_left = "Greater" /\ order_right = "Greater" THEN "Greater"
    ELSE "Equal"

Tile_vertical_cmp(a, b) ==
    TileSides(cmp(a.bottom.x, b.bottom.x), cmp(a.top.x, b.top.x))

Tile_horizontal_cmp(a, b) ==
    TileSides(cmp(a.bottom.y, b.bottom.y), cmp(a.top.y, b.top.y))

\* impl PartialOrd for Tile with the tests for Less and Greater exchanged
Tile_partial_cmp_exchanged(a, b) ==
    IF Point_eq(a.bottom, b.bottom) /\ Point_eq(a.top, b.top) THEN "Equal"
    ELSE IF Point_le(a.bottom, b.bottom) /\ Point_ge(a.top, b.top) THEN "Less"
    ELSE IF Point_ge(a.bottom, b.bottom) /\ Point_le(a.top, b.top) THEN "Greater"
    ELSE "None"

\* impl PartialOrd for Tile
Tile_partial_cmp(a, b) ==
    IF Point_eq(a.bottom, b.bottom) /\ Point_eq(a.top, b.top) THEN "Equal"
    ELSE IF Point_ge(a.bottom, b.bottom) /\ Point_le(a.top, b.top) THEN "Less"
    ELSE IF Point_le(a.bottom, b.bottom) /\ Point_ge(a.top, b.top) THEN "Greater"
    ELSE "None"

\* impl PartialEq for Tile
Tile_eq(a, b) == Tile_partial_cmp(a, b) = "Equal"

\* a >= b, the provided method of PartialOrd for Tile
Tile_ge(a, b) == Tile_partial_cmp(a, b) \in {"Greater", "Equal"}

----------------------------------------------------------------------------
(* geometry.rs: Line.  A line is [axis |-> "V" or "H", at |-> coordinate] *)

VerticalLine_at_point(p) == [axis |-> "V", at |-> p.x]
HorizontalLine_at_point(p) == [axis |-> "H", at |-> p.y]

\* the match shared by the two impl PartialOrd<Tile> for ...Line
LineSides(order_left, order_right) ==
    IF order_left = "Less" /\ order_right = "Less" THEN "Less"
    ELSE IF order_left = "Greater" /\ order_right = "Greater" THEN "Greater"
    ELSE "Equal"

VerticalLine_partial_cmp_Tile(l, t) ==
    LineSides(cmp(l.at, t.bottom.x), cmp(l.at, t.top.x))

HorizontalLine_partial_cmp_Tile(l, t) ==
    LineSides(cmp(l.at, t.bottom.y), cmp(l.at, t.top.y))

\* Line::cmp_with_tile, dispatched on the kind of line
cmp_with_tile(l, t) ==
    IF l.axis = "V" THEN VerticalLine_partial_cmp_Tile(l, t)
    ELSE HorizontalLine_partial_cmp_Tile(l, t)

\* impl PartialEq<Tile> for ...Line
Line_eq_Tile(l, t) == cmp_with_tile(l, t) = "Equal"

----------------------------------------------------------------------------
(* rtree.rs: Node.  A node is either                                       *)
(*   [kind |-> "Leaf", point |-> Point, data |-> Value]   or               *)
(*   [kind |-> "Node", coverage |-> Tile, vector |-> Seq(Node)]            *)

Leaf(point, data) == [kind |-> "Leaf", point |-> point, data |-> data]
Interior(tile, vector) == [kind |-> "Node", coverage |-> tile, vector |-> vector]

\* Node::coverage
coverage(n) == IF n.kind = "Leaf" THEN Tile_from_point(n.point) ELSE n.coverage

\* vec.iter().map(|n| n.coverage())
coverages(vector) == [i \in 1..Len(vector) |-> coverage(vector[i])]

\* impl PartialOrd<Obj> for Node without the closure that exchanges Less and
\* Greater
Node_partial_cmp_Point_unflipped(n, point) ==
    IF n.kind = "Leaf"
    THEN Point_partial_cmp_Tile(point, Tile_from_point(n.point))
    ELSE Point_partial_cmp_Tile(point, n.coverage)

\* impl PartialOrd<Obj> for Node, with Obj = Point
Node_partial_cmp_Point(n, point) ==
    Reverse(IF n.kind = "Leaf"
            THEN Point_partial_cmp_Tile(point, Tile_from_point(n.point))
            ELSE Point_partial_cmp_Tile(point, n.coverage))

\* **entry >= point
Node_ge_Point(n, point) == Node_partial_cmp_Point(n, point) \in {"Greater", "Equal"}

\* impl PartialOrd<Obj> for Node, with Obj = Line, without the closure that
\* exchanges Less and Greater
Node_partial_cmp_Line_unflipped(n, line) ==
    IF n.kind = "Leaf"
    THEN cmp_with_tile(line, Tile_from_point(n.point))
    ELSE cmp_with_tile(line, n.coverage)

\* impl PartialOrd<Obj> for Node, with Obj = Line
Node_partial_cmp_Line(n, line) ==
    Reverse(IF n.kind = "Leaf"
            THEN cmp_with_tile(line, Tile_from_point(n.point))
            ELSE cmp_with_tile(line, n.coverage))

\* n.bottom_left_corner() projected on the axis the sort compares
SortKey(t, axis) == IF axis = "V" THEN t.bottom.x ELSE t.bottom.y

\* one step of a stable sort: t goes behind every element that is not greater
RECURSIVE InsertSorted(_, _, _)
InsertSorted(sorted, t, axis) ==
    IF sorted = <<>> THEN <<t>>
    ELSE IF SortKey(sorted[Len(sorted)], axis) <= SortKey(t, axis)
         THEN Append(sorted, t)
         ELSE Append(InsertSorted(SubSeq(sorted, 1, Len(sorted) - 1), t, axis),
                     sorted[Len(sorted)])

\* tile_set.sort_by(|n1, n2| n1.bottom_left_corner().vertical_cmp(...)), and
\* the same with horizontal_cmp: a stable sort on one coordinate
RECURSIVE sort_by(_, _)
sort_by(tiles, axis) ==
    IF tiles = <<>> THEN <<>>
    ELSE InsertSorted(sort_by(SubSeq(tiles, 1, Len(tiles) - 1), axis),
                      tiles[Len(tiles)], axis)

\* iter.filter(|&tile| &line == tile).count()
split_cost(tiles, line) ==
    Cardinality({i \in 1..Len(tiles) : Line_eq_Tile(line, tiles[i])})

\* a candidate line of sweep with the number of tiles it splits
Candidate(sorted, line) == [line |-> line, cost |-> split_cost(sorted, line)]

\* vline and vertical_cost, from the tiles sorted on x
VerticalCandidate(sorted, ff) ==
    Candidate(sorted, VerticalLine_at_point(sorted[ff + 1].bottom))

\* hline and horizontal_cost, from the tiles sorted on y
HorizontalCandidate(sorted, ff) ==
    Candidate(sorted, HorizontalLine_at_point(sorted[ff + 1].bottom))

\* the final if of sweep giving the horizontal line on equal costs too
ChooseLine_ties_horizontal(v, h) == IF v.cost >= h.cost THEN h.line ELSE v.line

\* the final if of sweep: the horizontal line only when it splits fewer tiles
ChooseLine(v, h) == IF v.cost > h.cost THEN h.line ELSE v.line

\* Node::sweep.  tile_set[fill_factor] panics when the index is out of bounds.
sweep(tile_set, ff) ==
    IF Len(tile_set) <= ff THEN [line |-> None, panic |-> TRUE]
    ELSE [line  |-> Some(ChooseLine(
                        VerticalCandidate(sort_by(tile_set, "V"), ff),
                        HorizontalCandidate(sort_by(tile_set, "H"), ff))),
          panic |-> FALSE]

\* one iteration of the for loop of Node::partition if the Equal arm forgot
\* the node its recursive call returned
PartitionPush_dropping(acc, node, ord, sub) ==
    IF acc.panic THEN acc
    ELSE IF ord = "Less" THEN [acc EXCEPT !.left_vec = Append(@, node)]
    ELSE IF ord = "Equal"
         THEN [left_vec  |-> Append(acc.left_vec, sub.self),
               right_vec |-> acc.right_vec,
               panic     |-> sub.panic]
    ELSE [acc EXCEPT !.right_vec = Append(@, node)]

\* one iteration of the for loop of Node::partition: node compares as ord
\* with the line, and sub is the result of node.partition(line, fill_factor)
PartitionPush(acc, node, ord, sub) ==
    IF acc.panic THEN acc
    ELSE IF ord = "Less" THEN [acc EXCEPT !.left_vec = Append(@, node)]
    ELSE IF ord = "Equal"
         THEN [left_vec  |-> Append(acc.left_vec, sub.self),
               right_vec |-> IF IsSome(sub.right)
                             THEN Append(acc.right_vec, Unwrap(sub.right))
                             ELSE acc.right_vec,
               panic     |-> sub.panic]
    ELSE [acc EXCEPT !.right_vec = Append(@, node)]

\* what Node::partition would build if it wrapped a single right node too
PartitionBuild_wrapping(self, loop, left_box, right_box) ==
    IF loop.panic \/ ~IsSome(left_box)
    THEN [self |-> self, right |-> None, panic |-> TRUE]
    ELSE [self  |-> Interior(Unwrap(left_box), loop.left_vec),
          right |-> IF IsSome(right_box)
                    THEN Some(Interior(Unwrap(right_box), loop.right_vec))
                    ELSE None,
          panic |-> FALSE]

\* what Node::partition builds once the loop is over: left_box is unwrapped,
\* a single right node is returned bare, several are wrapped, none gives None
PartitionBuild(self, loop, left_box, right_box) ==
    IF loop.panic \/ ~IsSome(left_box)
    THEN [self |-> self, right |-> None, panic |-> TRUE]
    ELSE [self  |-> Interior(Unwrap(left_box), loop.left_vec),
          right |-> IF Len(loop.right_vec) = 1 THEN Some(loop.right_vec[1])
                    ELSE IF IsSome(right_box)
                         THEN Some(Interior(Unwrap(right_box), loop.right_vec))
                         ELSE None,
          panic |-> FALSE]

PartitionBoxes(self, loop) ==
    PartitionBuild(self, loop, bounding_tile(coverages(loop.left_vec)),
                   bounding_tile(coverages(loop.right_vec)))

RECURSIVE partition(_, _, _)
RECURSIVE partition_loop(_, _, _)

\* the for loop of Node::partition over vector.drain(..), in list order
partition_loop(vector, line, ff) ==
    IF vector = <<>>
    THEN [left_vec |-> <<>>, right_vec |-> <<>>, panic |-> FALSE]
    ELSE PartitionPush(partition_loop(SubSeq(vector, 1, Len(vector) - 1), line, ff),
                       vector[Len(vector)],
                       Node_partial_cmp_Line(vector[Len(vector)], line),
                       partition(vector[Len(vector)], line, ff))

\* Node::partition: the node after the call, the right subtree returned, and
\* whether bounding_tile(left_vec).unwrap() panicked
partition(self, line, ff) ==
    IF self.kind = "Leaf" THEN [self |-> self, right |-> None, panic |-> FALSE]
    ELSE PartitionBoxes(self, partition_loop(self.vector, line, ff))

\* the end of Node::split_node: partition along the line sweep returned
SplitAlong(self, sw, ff) ==
    IF sw.panic THEN [self |-> self, right |-> None, panic |-> TRUE]
    ELSE partition(self, Unwrap(sw.line), ff)

\* Node::split_node splitting as soon as the node holds fill_factor children
split_node_early(self, ff) ==
    IF self.kind = "Leaf" THEN [self |-> self, right |-> None, panic |-> FALSE]
    ELSE IF Len(self.vector) < ff
         THEN [self |-> self, right |-> None, panic |-> FALSE]
    ELSE SplitAlong(self, sweep(coverages(self.vector), ff), ff)

\* Node::split_node
split_node(self, ff) ==
    IF self.kind = "Leaf" THEN [self |-> self, right |-> None, panic |-> FALSE]
    ELSE IF Len(self.vector) <= ff
         THEN [self |-> self, right |-> None, panic |-> FALSE]
    ELSE SplitAlong(self, sweep(coverages(self.vector), ff), ff)

\* whether some child before index i is >= point
EarlierEntry(vector, point, i) ==
    \E j \in 1..(i - 1) : Node_ge_Point(vector[j], point)

\* find returning the last child that is >= point instead of the first
find_entry_last(vector, point) ==
    IF EarlierEntry(vector, point, Len(vector) + 1)
    THEN CHOOSE i \in 1..Len(vector) :
            /\ Node_ge_Point(vector[i], point)
            /\ \A j \in (i + 1)..Len(vector) : ~Node_ge_Point(vector[j], point)
    ELSE 0

\* vector.iter().find(|entry| **entry >= point): the index of the first such
\* child, 0 when there is none
find_entry(vector, point) ==
    IF EarlierEntry(vector, point, Len(vector) + 1)
    THEN CHOOSE i \in 1..Len(vector) :
            EarlierEntry(vector, point, i + 1) /\ ~EarlierEntry(vector, point, i)
    ELSE 0

\* Node::insert, Node arm, once the overflow is pushed: (old_value, split_node)
InsertSplit(old_value, split) ==
    [self |-> split.self, old_value |-> old_value, overflow |-> split.right,
     panic |-> split.panic]

\* Node::insert, Node arm, after the inner block: vector is the children list
\* after the recursive call, sub what the inner block produced
InsertOverflow(self, vector, sub, ff) ==
    IF sub.panic
    THEN [self |-> self, old_value |-> None, overflow |-> None, panic |-> TRUE]
    ELSE IF IsSome(sub.overflow)
    THEN InsertSplit(sub.old_value,
                     split_node([self EXCEPT
                                   !.vector = Append(vector, Unwrap(sub.overflow))],
                                ff))
    ELSE [self |-> [self EXCEPT !.vector = vector],
          old_value |-> sub.old_value, overflow |-> None, panic |-> FALSE]

\* Node::insert, Node arm, a child i was found: it is replaced by what the
\* recursive call made of it
InsertInto(self, i, sub, ff) ==
    InsertOverflow(self, [self.vector EXCEPT ![i] = sub.self], sub, ff)

\* Node::insert, Node arm, no child was found: a new leaf is the overflow
InsertHere(self, point, value, ff) ==
    InsertOverflow(self, self.vector,
                   [self |-> self, old_value |-> None,
                    overflow |-> Some(Leaf(point, value)), panic |-> FALSE],
                   ff)

RECURSIVE Node_insert(_, _, _, _)

\* Node::insert, Node arm: i is the index find returned, 0 for None
InsertAt(self, i, point, value, ff) ==
    IF i # 0
    THEN InsertInto(self, i, Node_insert(self.vector[i], point, value, ff), ff)
    ELSE InsertHere(self, point, value, ff)

\* Node::insert: the node after the call, the old value and the overflow
\* subtree it returns.  The Leaf arm swaps the value whatever the point is.
Node_insert(self, point, value, ff) ==
    IF self.kind = "Leaf"
    THEN [self |-> [self EXCEPT !.data = value], old_value |-> Some(self.data),
          overflow |-> None, panic |-> FALSE]
    ELSE InsertAt(self, find_entry(self.vector, point), point, value, ff)

RECURSIVE Node_find(_, _)

\* Node::find, Node arm: .and_then(|node| node.find(point))
FindAt(self, i, point) ==
    IF i # 0 THEN Node_find(self.vector[i], point) ELSE None

\* Node::find
Node_find(self, point) ==
    IF self.kind = "Leaf" THEN Some(self.data)
    ELSE FindAt(self, find_entry(self.vector, point), point)

RECURSIVE Node_find_mut(_, _)

\* Node::find_mut, Node arm: .and_then(|node| node.find_mut(point))
FindMutAt(self, i, point) ==
    IF i # 0 THEN Node_find_mut(self.vector[i], point) ELSE None

\* Node::find_mut: the value the returned reference points to
Node_find_mut(self, point) ==
    IF self.kind = "Leaf" THEN Some(self.data)
    ELSE FindMutAt(self, find_entry(self.vector, point), point)

----------------------------------------------------------------------------
(* rtree.rs: RTree *)

\* RTree::insert, the overflow arm: the new root holds the overflow and the
\* old root, in that order
ReplaceRoot(n, old_root) ==
    Interior(Tile_union(coverage(n), coverage(old_root)), <<n, old_root>>)

\* RTree::insert, after root.insert returned.  self.root.take() has left None
\* in self.root, and only the overflow arm assigns self.root again.
AfterRootInsert(ins) ==
    [root  |-> IF ~ins.panic /\ IsSome(ins.overflow)
               THEN Some(ReplaceRoot(Unwrap(ins.overflow), ins.self))
               ELSE None,
     ret   |-> ins.old_value,
     panic |-> ins.panic]

\* RTree::insert with the assignment of the empty arm left out
RTree_insert_unassigned(rt, ff, point, data) ==
    IF IsSome(rt)
    THEN AfterRootInsert(Node_insert(Unwrap(rt), point, data, ff))
    ELSE [root |-> None, ret |-> None, panic |-> FALSE]

\* RTree::insert: the root after the call and the value returned
RTree_insert(rt, ff, point, data) ==
    IF IsSome(rt)
    THEN AfterRootInsert(Node_insert(Unwrap(rt), point, data, ff))
    ELSE [root |-> Some(Leaf(point, data)), ret |-> None, panic |-> FALSE]

\* RTree::find
RTree_find(rt, point) ==
    IF IsSome(rt) THEN Node_find(Unwrap(rt), point) ELSE None

\* RTree::find_mut
RTree_find_mut(rt, point) ==
    IF IsSome(rt) THEN Node_find_mut(Unwrap(rt), point) ELSE None

----------------------------------------------------------------------------
(* game.rs: Entity, RoverMove and GameMap.  A GameMap is                    *)
(*   [rover |-> Point, dust_map |-> [fill_factor, root], grid_top |-> Point] *)

\* Entity::dust
Entity_dust == [dust |-> TRUE]

\* Entity::clean_dust: the entity after the call and the flag returned
clean_dust(e) == [entity |-> [e EXCEPT !.dust = FALSE], ret |-> e.dust]

\* the largest i32: GameMap keeps its points as Point<i32>
I32Max == 2147483647

\* a + b leaves the range of i32
add_overflows(a, b) ==
    \/ b > 0 /\ a > I32Max - b
    \/ b < 0 /\ a < (-I32Max - 1) - b

\* a + b on i32 as a build without overflow checks computes it: the sum
\* modulo 2^32, written so that no intermediate value leaves the range
wrapping_add(a, b) ==
    IF b > 0 /\ a > I32Max - b
    THEN ((a - I32Max) - 1) + ((b - I32Max) - 1)
    ELSE IF b < 0 /\ a < (-I32Max - 1) - b
    THEN ((a + I32Max) + 1) + ((b + I32Max) + 1)
    ELSE a + b

\* impl Add for Point, on Point<i32>: whether self.x + rhs.x or
\* self.y + rhs.y overflows, which panics in a build with overflow checks
Point_add_overflows(a, b) == add_overflows(a.x, b.x) \/ add_overflows(a.y, b.y)

\* impl Add for Point, on Point<i32>: the point a build without overflow
\* checks returns
Point_add(a, b) == [x |-> wrapping_add(a.x, b.x), y |-> wrapping_add(a.y, b.y)]

\* RoverMove::as_vector
as_vector(dir) ==
    IF dir = "North" THEN Point_new(0, 1)
    ELSE IF dir = "South" THEN Point_new(0, -1)
    ELSE IF dir = "East" THEN Point_new(1, 0)
    ELSE Point_new(-1, 0)

\* RTree::new()
RTree_new == [fill_factor |-> DefaultFillFactor, root |-> None]

\* rtree.insert(p, Entity::dust()) in the loop of GameMap::new, ins being
\* what RTree::insert computed
DustInserted(acc, ins) ==
    [acc EXCEPT !.map.root = ins.root, !.panic = ins.panic]

\* one iteration of the for loop of GameMap::new: acc is the tree and the
\* error so far, p the next dust point
DustPush(acc, p, arena) ==
    IF acc.err # "Ok" \/ acc.panic THEN acc
    ELSE IF Point_le_Tile(p, arena)
    THEN DustInserted(acc, RTree_insert(acc.map.root, acc.map.fill_factor, p,
                                        Entity_dust))
    ELSE [acc EXCEPT !.err = "InvalidDustPosition"]

\* the for loop of GameMap::new over the dust vector
RECURSIVE DustLoop(_, _)
DustLoop(dust_vec, arena) ==
    IF dust_vec = <<>> THEN [map |-> RTree_new, err |-> "Ok", panic |-> FALSE]
    ELSE DustPush(DustLoop(SubSeq(dust_vec, 1, Len(dust_vec) - 1), arena),
                  dust_vec[Len(dust_vec)], arena)

\* the Ok or Err value GameMap::new builds once the loop is over
GameBuilt(grid_top, rover_pos, filled) ==
    [game  |-> IF filled.err = "Ok" /\ ~filled.panic
               THEN Some([rover |-> rover_pos, dust_map |-> filled.map,
                          grid_top |-> grid_top])
               ELSE None,
     err   |-> filled.err,
     panic |-> filled.panic]

\* GameMap::new once the arena is built
GameInArena(grid_top, rover_pos, dust_vec, arena) ==
    IF arena.panic THEN [game |-> None, err |-> "Ok", panic |-> TRUE]
    ELSE IF Point_le_Tile(rover_pos, arena.tile)
    THEN GameBuilt(grid_top, rover_pos, DustLoop(dust_vec, arena.tile))
    ELSE [game |-> None, err |-> "InvalidRoverPosition", panic |-> FALSE]

\* GameMap::new
GameMap_new(grid_top, rover_pos, dust_vec) ==
    GameInArena(grid_top, rover_pos, dust_vec,
                Tile_new(Point_new(0, 0), grid_top))

\* the if of GameMap::move_rover without the test against Point::new(0, 0)
MoveTo_unfloored(rover_pos, grid_top, new_pos) ==
    IF Point_le(new_pos, grid_top) THEN new_pos ELSE rover_pos

\* the if of GameMap::move_rover, new_pos being self.rover + vector
MoveTo(rover_pos, grid_top, new_pos) ==
    IF Point_le(new_pos, grid_top) /\ Point_ge(new_pos, Point_new(0, 0))
    THEN new_pos
    ELSE rover_pos

\* GameMap::move_rover: the position of the rover after the call, which is
\* also the value returned, in a build without overflow checks; with them the
\* call panics when Point_add_overflows(rover_pos, as_vector(dir))
move_rover(rover_pos, grid_top, dir) ==
    MoveTo(rover_pos, grid_top, Point_add(rover_pos, as_vector(dir)))

RECURSIVE Node_clean_dust(_, _)

\* the child the reference of find_mut was taken in, after clean_dust
CleanedChild(self, i, sub) ==
    [self |-> [self EXCEPT !.vector[i] = sub.self], ret |-> sub.ret]

\* Node::find_mut, Node arm, followed by clean_dust on the reference
CleanAt(self, i, point) ==
    IF i # 0 THEN CleanedChild(self, i, Node_clean_dust(self.vector[i], point))
    ELSE [self |-> self, ret |-> None]

\* node.find_mut(point).map(|d| d.clean_dust()): the node once clean_dust
\* has written through the reference, and the Option<bool> produced
Node_clean_dust(self, point) ==
    IF self.kind = "Leaf"
    THEN [self |-> [self EXCEPT !.data = clean_dust(self.data).entity],
          ret  |-> Some(clean_dust(self.data).ret)]
    ELSE CleanAt(self, find_entry(self.vector, point), point)

\* the Option<bool> of the filter closure, with unwrap_or(false) applied
FilterResult(rt, sub) ==
    [root |-> Some(sub.self), hit |-> IF IsSome(sub.ret) THEN Unwrap(sub.ret) ELSE FALSE]

\* the closure of filter in move_rover_path:
\* map.find_mut(pos).map(|d| d.clean_dust()).unwrap_or(false)
filter_dust(rt, pos) ==
    IF IsSome(rt) THEN FilterResult(rt, Node_clean_dust(Unwrap(rt), pos))
    ELSE [root |-> rt, hit |-> FALSE]

\* one element of the iterator chain of move_rover_path, once the rover has
\* moved to pos and the filter closure has returned flt
PathCounted(acc, pos, flt) ==
    [rover |-> pos, root |-> flt.root,
     count |-> IF flt.hit THEN acc.count + 1 ELSE acc.count,
     path  |-> Append(acc.path, pos),
     overflow |-> acc.overflow]

\* one element of the iterator chain, once the rover has moved to pos
PathFiltered(acc, pos) == PathCounted(acc, pos, filter_dust(acc.root, pos))

\* one element of the iterator chain: map, then filter, then count; overflow
\* tells whether self.rover + vector left the range of i32 in this move or in
\* an earlier one
PathStep(acc, grid_top, dir) ==
    PathFiltered([acc EXCEPT !.overflow =
                      @ \/ Point_add_overflows(acc.rover, as_vector(dir))],
                 move_rover(acc.rover, grid_top, dir))

\* the iterator chain of move_rover_path over moves, in order
RECURSIVE PathLoop(_, _)
PathLoop(g, moves) ==
    IF moves = <<>>
    THEN [rover |-> g.rover, root |-> g.dust_map.root, count |-> 0, path |-> <<>>,
          overflow |-> FALSE]
    ELSE PathStep(PathLoop(g, SubSeq(moves, 1, Len(moves) - 1)), g.grid_top,
                  moves[Len(moves)])

\* what move_rover_path leaves and returns: the tree is swapped back.  When
\* overflow is set, this is what a build without overflow checks leaves and
\* returns, and a build with them has panicked
PathDone(g, walked) ==
    [game  |-> [g EXCEPT !.rover = walked.rover, !.dust_map.root = walked.root],
     count |-> walked.count,
     path  |-> walked.path,
     overflow |-> walked.overflow]

\* GameMap::move_rover_path
move_rover_path(g, moves) == PathDone(g, PathLoop(g, moves))

----------------------------------------------------------------------------
(* The callers of the facade *)

Coords == 0..MaxCoord
Points == {Point_new(x, y) : x \in Coords, y \in Coords}

\* the points of the test `insert`, in the order the test inserts them
ScenarioPoints ==
    << Point_new(1, 1), Point_new(1, 2), Point_new(1, 4), Point_new(3, 4),
       Point_new(4, 4), Point_new(10, 10), Point_new(9, 10), Point_new(1, 10),
       Point_new(8, 6), Point_new(0, 10), Point_new(3, 7) >>

ScenarioSet == {ScenarioPoints[i] : i \in 1..Len(ScenarioPoints)}

GeomCoords == 0..MaxGeom
GeomPoints == {Point_new(x, y) : x \in GeomCoords, y \in GeomCoords}

NoResult == [eq |-> FALSE, cmp |-> "None", lt |-> FALSE, gt |-> FALSE,
             rev_eq |-> FALSE, rev_cmp |-> "None", rev_lt |-> FALSE]

\* the geometry harness at rest
GeomIdle ==
    /\ gop = "idle"
    /\ gp = Point_new(0, 0)
    /\ gq = Point_new(0, 0)
    /\ gres = NoResult

TileCoords == 0..MaxTile
TileGridPoints == {Point_new(x, y) : x \in TileCoords, y \in TileCoords}

\* operands away from the grid: a large tile with a point inside and a point
\* outside of it, and a tile reduced to a point
ExamplePoints == {Point_new(5, 5), Point_new(15, 5), Point_new(3, 3)}
ExampleTiles ==
    {Tile_new(Point_new(0, 0), Point_new(10, 10)).tile,
     Tile_from_point(Point_new(3, 3))}

\* the tiles Tile::new builds from two corners of the grid
GridTiles ==
    {Tile_new(c[1], c[2]).tile :
        c \in {d \in TileGridPoints \X TileGridPoints :
                   ~Tile_new(d[1], d[2]).panic}}

TileOperands == GridTiles \cup ExampleTiles
PointOperands == TileGridPoints \cup ExamplePoints

NoTileResult ==
    [cmp |-> "None", eq |-> FALSE, vertical |-> "Equal", horizontal |-> "Equal",
     panic |-> FALSE, tile |-> Tile_from_point(Point_new(0, 0))]

\* the tile harness at rest
TileIdle ==
    /\ tcall = "idle"
    /\ ta = Tile_from_point(Point_new(0, 0))
    /\ tb = Tile_from_point(Point_new(0, 0))
    /\ tp = Point_new(0, 0)
    /\ tres = NoTileResult

NodeCoords == 0..MaxNodeCoord
NodePoints == {Point_new(x, y) : x \in NodeCoords, y \in NodeCoords}

\* the leaves a node of the harness is built from hold the value 0, and the
\* value the harness inserts is 1
StoredValue == 0
InsertedValue == 1

\* Node::Node { coverage, vector } as the tests build it, with the bounding
\* tile of its children for coverage
NodeOver(vector) == Interior(Unwrap(bounding_tile(coverages(vector))), vector)

LeafOperands == {Leaf(p, StoredValue) : p \in NodePoints}

\* Interior nodes over one or two leaves at different points
FlatOperands ==
    {NodeOver(<<l>>) : l \in LeafOperands}
        \cup {NodeOver(<<c[1], c[2]>>) :
                 c \in {d \in LeafOperands \X LeafOperands : d[1] # d[2]}}

ChildOperands == LeafOperands \cup FlatOperands

\* the points stored under a node
RECURSIVE PointsOf(_)
PointsOf(n) ==
    IF n.kind = "Leaf" THEN {n.point}
    ELSE UNION {PointsOf(n.vector[i]) : i \in 1..Len(n.vector)}

\* leaves, and Interior nodes over one or two children that are leaves or
\* Interior nodes over leaves; no point is stored twice
NodeOperands ==
    LeafOperands
        \cup {NodeOver(<<c>>) : c \in ChildOperands}
        \cup {NodeOver(<<c[1], c[2]>>) :
                 c \in {d \in ChildOperands \X ChildOperands :
                            PointsOf(d[1]) \cap PointsOf(d[2]) = {}}}

\* the smallest fill factor the tree is documented for, and the default one
FillOperands == {2, DefaultFillFactor}

GameCoords == 0..MaxGame
GamePoints == {Point_new(x, y) : x \in GameCoords, y \in GameCoords}

\* the dust vectors given to GameMap::new: no point, one point or two points
DustVectors ==
    {<<>>} \cup {<<p>> : p \in GamePoints}
           \cup {<<c[1], c[2]>> : c \in GamePoints \X GamePoints}

RoverMoves == {"North", "East", "South", "West"}

\* the paths given to move_rover_path: one move or two moves
MovePaths ==
    {<<d>> : d \in RoverMoves} \cup {<<c[1], c[2]>> : c \in RoverMoves \X RoverMoves}

NoNodeResult ==
    [self |-> Leaf(Point_new(0, 0), 0), old_value |-> None, overflow |-> None,
     panic |-> FALSE, cmp |-> "None", ge |-> FALSE]

\* the node harness at rest
NodeIdle ==
    /\ ncall = "idle"
    /\ nfill = DefaultFillFactor
    /\ nnode = Leaf(Point_new(0, 0), 0)
    /\ npoint = Point_new(0, 0)
    /\ nres = NoNodeResult

\* no GameMap has been built
GameIdle ==
    /\ game = None
    /\ gcall = "idle"
    /\ dust = <<>>
    /\ cleaned = {}
    /\ path = <<>>
    /\ count = 0
    /\ gargs = [grid_top |-> Point_new(0, 0), rover |-> Point_new(0, 0),
                moves |-> <<>>]

\* the grid the nodes given to sweep, partition and split_node are drawn on
SplitPoints == {Point_new(x, y) : x \in 0..MaxSplitX, y \in 0..MaxSplitY}

\* every leaf of the grid stores a value of its own
SplitValue(p) == p.x * (MaxSplitY + 1) + p.y

SplitLeaves == {Leaf(p, SplitValue(p)) : p \in SplitPoints}

\* Interior nodes over two leaves at different points
SplitPairs ==
    {NodeOver(<<c[1], c[2]>>) :
        c \in {d \in SplitLeaves \X SplitLeaves : d[1] # d[2]}}

SplitChildren == SplitLeaves \cup SplitPairs

\* the node of test_partition_depth1_vertical and _horizontal: coverage
\* (0,0)-(10,10) over five leaves
TestNode ==
    Interior([bottom |-> Point_new(0, 0), top |-> Point_new(10, 10)],
             <<Leaf(Point_new(0, 0), StoredValue), Leaf(Point_new(5, 9), StoredValue),
               Leaf(Point_new(6, 0), StoredValue), Leaf(Point_new(3, 10), StoredValue),
               Leaf(Point_new(5, 5), StoredValue)>>)

\* Interior nodes over two children that are leaves or Interior nodes over
\* two leaves, or over three children of which at most one is an Interior
\* node, no point stored twice; the node of the tests; and single leaves
SplitOperands ==
    {NodeOver(<<c[1], c[2]>>) :
        c \in {d \in SplitChildren \X SplitChildren :
                   PointsOf(d[1]) \cap PointsOf(d[2]) = {}}}
      \cup {NodeOver(<<c[1], c[2], c[3]>>) :
        c \in {d \in SplitChildren \X SplitChildren \X SplitChildren :
                   /\ Cardinality({i \in 1..3 : d[i].kind = "Node"}) <= 1
                   /\ PointsOf(d[1]) \cap PointsOf(d[2]) = {}
                   /\ PointsOf(d[1]) \cap PointsOf(d[3]) = {}
                   /\ PointsOf(d[2]) \cap PointsOf(d[3]) = {}}}
      \cup {TestNode}
      \cup SplitLeaves

\* VerticalLine::new(6u16) and HorizontalLine::new(10u16) of the tests
TestLines == {[axis |-> "V", at |-> 6], [axis |-> "H", at |-> 10]}

\* the lines given to partition: every line of the grid, and the tests' lines
SplitLines ==
    {[axis |-> "V", at |-> c] : c \in 0..MaxSplitX}
        \cup {[axis |-> "H", at |-> c] : c \in 0..MaxSplitY}
        \cup TestLines

NoSplitResult ==
    [self |-> Leaf(Point_new(0, 0), StoredValue), right |-> None, panic |-> FALSE,
     line |-> None, left_vec |-> <<>>, right_vec |-> <<>>]

\* the split harness at rest
SplitIdle ==
    /\ scall = "idle"
    /\ sfill = DefaultFillFactor
    /\ snode = Leaf(Point_new(0, 0), StoredValue)
    /\ sline = None
    /\ sres = NoSplitResult

\* no call has been made on the facade
FacadeIdle ==
    /\ fill_factor = DefaultFillFactor
    /\ root = None
    /\ before = None
    /\ calls = <<>>
    /\ op = "new"
    /\ arg = None
    /\ ret = None

\* RTree::new() and RTree::with_radix(radix)
Init ==
    /\ \/ op = "new" /\ fill_factor = DefaultFillFactor
       \/ op = "with_radix" /\ fill_factor \in 0..MaxRadix
    /\ root = None
    /\ before = None
    /\ calls = <<>>
    /\ arg = None
    /\ ret = None
    /\ GeomIdle
    /\ TileIdle
    /\ NodeIdle
    /\ GameIdle
    /\ SplitIdle

\* the effect of rtree.insert(point, value) on the state, res being what
\* RTree::insert computed
ApplyInsert(point, value, res) ==
    /\ op # "panic"
    /\ root' = res.root
    /\ before' = root
    /\ ret' = res.ret
    /\ op' = IF res.panic THEN "panic" ELSE "insert"
    /\ arg' = Some(point)
    /\ calls' = Append(calls, [point |-> point, value |-> value])
    /\ UNCHANGED <<fill_factor, harnessVars>>

\* the value a call inserts is a token that identifies the call (Value is a
\* type parameter: the tree moves values and never inspects them)
NextValue == Len(calls) + 1

\* rtree.insert(point, value)
DoInsert(point) ==
    ApplyInsert(point, NextValue, RTree_insert(root, fill_factor, point, NextValue))

Insert ==
    /\ Len(calls) < MaxInserts
    /\ \E point \in Points : DoInsert(point)

\* rtree.find(point)
DoFind(point) ==
    /\ op # "panic"
    /\ ret' = RTree_find(root, point)
    /\ op' = "find"
    /\ arg' = Some(point)
    /\ UNCHANGED <<fill_factor, root, before, calls, harnessVars>>

Find == \E point \in Points : DoFind(point)

\* rtree.find_mut(point); the caller only reads through the reference
DoFindMut(point) ==
    /\ op # "panic"
    /\ ret' = RTree_find_mut(root, point)
    /\ op' = "find_mut"
    /\ arg' = Some(point)
    /\ UNCHANGED <<fill_factor, root, before, calls, harnessVars>>

FindMut == \E point \in Points : DoFindMut(point)

Next == Insert \/ Find \/ FindMut

Spec == Init /\ [][Next]_vars

----------------------------------------------------------------------------
(* The test `insert`: RTree::new(), then the eleven points in order *)

InitScenario ==
    /\ op = "new"
    /\ fill_factor = DefaultFillFactor
    /\ root = None
    /\ before = None
    /\ calls = <<>>
    /\ arg = None
    /\ ret = None
    /\ GeomIdle
    /\ TileIdle
    /\ NodeIdle
    /\ GameIdle
    /\ SplitIdle

ScenarioInsert ==
    /\ Len(calls) < Len(ScenarioPoints)
    /\ DoInsert(ScenarioPoints[Len(calls) + 1])

ScenarioFind == \E point \in ScenarioSet \cup Points : DoFind(point)

NextScenario == ScenarioInsert \/ ScenarioFind

SpecScenario == InitScenario /\ [][NextScenario]_vars

----------------------------------------------------------------------------
(* The comparisons of geometry.rs applied to operands drawn from a grid *)

InitGeom ==
    /\ FacadeIdle
    /\ gop = "idle"
    /\ gp \in GeomPoints
    /\ gq \in GeomPoints
    /\ gres = NoResult
    /\ TileIdle
    /\ NodeIdle
    /\ GameIdle
    /\ SplitIdle

\* p == q, p.partial_cmp(&q), p < q, p > q, and the same with q and p exchanged
ComparePoints ==
    /\ gop = "idle"
    /\ gop' = "point_point"
    /\ gres' = [eq      |-> Point_eq(gp, gq),
                cmp     |-> Point_partial_cmp(gp, gq),
                lt      |-> Point_lt(gp, gq),
                gt      |-> Point_gt(gp, gq),
                rev_eq  |-> Point_eq(gq, gp),
                rev_cmp |-> Point_partial_cmp(gq, gp),
                rev_lt  |-> Point_lt(gq, gp)]
    /\ UNCHANGED <<gp, gq, facadeVars, tileVars, nodeVars, gameVars, splitVars>>

NextGeom == ComparePoints

SpecGeom == InitGeom /\ [][NextGeom]_vars

----------------------------------------------------------------------------
(* The operations of Tile applied to operands drawn from a grid *)

InitTile ==
    /\ FacadeIdle
    /\ GeomIdle
    /\ NodeIdle
    /\ GameIdle
    /\ SplitIdle
    /\ tcall = "idle"
    /\ ta \in TileOperands
    /\ tb \in TileOperands
    /\ tp = Point_new(0, 0)
    /\ tres = NoTileResult

\* what an operation of the tile harness leaves as it is
TileFrame ==
    UNCHANGED <<ta, tb, facadeVars, geomVars, nodeVars, gameVars, splitVars>>

\* a == p and a.partial_cmp(&p)
DoTileComparePoint(p) ==
    /\ tcall = "idle"
    /\ tcall' = "tile_point"
    /\ tp' = p
    /\ tres' = [NoTileResult EXCEPT !.eq = Tile_eq_Point(ta, p),
                                    !.cmp = Tile_partial_cmp_Point(ta, p)]
    /\ TileFrame

TileComparePoint == \E p \in PointOperands : DoTileComparePoint(p)

\* a == b and a.partial_cmp(&b)
TileCompareTile ==
    /\ tcall = "idle"
    /\ tcall' = "tile_tile"
    /\ tres' = [NoTileResult EXCEPT !.eq = Tile_eq(ta, tb),
                                    !.cmp = Tile_partial_cmp(ta, tb)]
    /\ UNCHANGED tp
    /\ TileFrame

\* a.vertical_cmp(b) and a.horizontal_cmp(b)
TileCompareAxes ==
    /\ tcall = "idle"
    /\ tcall' = "axes"
    /\ tres' = [NoTileResult EXCEPT !.vertical = Tile_vertical_cmp(ta, tb),
                                    !.horizontal = Tile_horizontal_cmp(ta, tb)]
    /\ UNCHANGED tp
    /\ TileFrame

\* what a constructor of Tile returned, or that it panicked
TileBuilt(call, p, built) ==
    /\ tcall = "idle"
    /\ tcall' = call
    /\ tp' = p
    /\ tres' = [NoTileResult EXCEPT !.tile = built.tile, !.panic = built.panic]
    /\ TileFrame

\* Tile::new(a.bottom_left_corner(), b.top_right_corner())
TileNew ==
    TileBuilt("new", tp, Tile_new(bottom_left_corner(ta), top_right_corner(tb)))

\* Tile::from_point(p)
TileFromPoint ==
    \E p \in PointOperands :
        TileBuilt("from_point", p, [tile |-> Tile_from_point(p), panic |-> FALSE])

\* a.union(b)
TileUnion ==
    TileBuilt("union", tp, [tile |-> Tile_union(ta, tb), panic |-> FALSE])

NextTile ==
    \/ TileComparePoint
    \/ TileCompareTile
    \/ TileCompareAxes
    \/ TileNew
    \/ TileFromPoint
    \/ TileUnion

SpecTile == InitTile /\ [][NextTile]_vars

----------------------------------------------------------------------------
(* The private operations of Node applied to nodes built directly, as the   *)
(* tests of rtree.rs do                                                     *)

InitNode ==
    /\ FacadeIdle
    /\ GeomIdle
    /\ TileIdle
    /\ GameIdle
    /\ SplitIdle
    /\ ncall = "idle"
    /\ nfill = DefaultFillFactor
    /\ nnode \in NodeOperands
    /\ npoint = Point_new(0, 0)
    /\ nres = NoNodeResult

\* what an operation of the node harness leaves as it is: nnode keeps the
\* node as it was when the operation was called
NodeFrame ==
    UNCHANGED <<nnode, facadeVars, geomVars, tileVars, gameVars, splitVars>>

\* the harness after nnode.insert(point, InsertedValue, ff) returned ins
NodeInserted(point, ff, ins) ==
    /\ ncall = "idle"
    /\ ncall' = "insert"
    /\ npoint' = point
    /\ nfill' = ff
    /\ nres' = [NoNodeResult EXCEPT !.self = ins.self,
                                    !.old_value = ins.old_value,
                                    !.overflow = ins.overflow,
                                    !.panic = ins.panic]
    /\ NodeFrame

\* nnode.insert(point, InsertedValue, ff)
NodeInsert ==
    \E point \in NodePoints, ff \in FillOperands :
        NodeInserted(point, ff, Node_insert(nnode, point, InsertedValue, ff))

\* nnode.partial_cmp(&point) and nnode >= point
DoNodeCompare(point) ==
    /\ ncall = "idle"
    /\ ncall' = "compare"
    /\ npoint' = point
    /\ nres' = [NoNodeResult EXCEPT !.cmp = Node_partial_cmp_Point(nnode, point),
                                    !.ge = Node_ge_Point(nnode, point)]
    /\ UNCHANGED nfill
    /\ NodeFrame

NodeCompare == \E point \in NodePoints : DoNodeCompare(point)

NextNode == NodeInsert \/ NodeCompare

SpecNode == InitNode /\ [][NextNode]_vars

----------------------------------------------------------------------------
(* A GameMap built by GameMap::new, then paths given to move_rover_path     *)

InitGame ==
    /\ FacadeIdle
    /\ GeomIdle
    /\ TileIdle
    /\ NodeIdle
    /\ GameIdle
    /\ SplitIdle

GameFrame == UNCHANGED <<facadeVars, geomVars, tileVars, nodeVars, splitVars>>

\* the state once GameMap::new(grid_top, rover, dust_vec) returned built
GameCreated(grid_top, rover_pos, dust_vec, built) ==
    /\ gcall = "idle"
    /\ gargs' = [grid_top |-> grid_top, rover |-> rover_pos, moves |-> <<>>]
    /\ game' = built.game
    /\ gcall' = IF built.panic THEN "panic"
                ELSE IF built.err = "Ok" THEN "new" ELSE built.err
    /\ dust' = dust_vec
    /\ UNCHANGED <<cleaned, path, count>>
    /\ GameFrame

\* GameMap::new(grid_top, rover, dust_vec)
GameNew ==
    \E grid_top \in GamePoints, rover_pos \in GamePoints, dust_vec \in DustVectors :
        GameCreated(grid_top, rover_pos, dust_vec,
                    GameMap_new(grid_top, rover_pos, dust_vec))

\* the dust points among the positions of a path
DustOn(positions) ==
    {dust[i] : i \in 1..Len(dust)} \cap {positions[i] : i \in 1..Len(positions)}

\* how a call of move_rover_path can end: it returns, or, when a sum left
\* the range of i32, it returns or panics according to the build
PathOutcomes(done) == IF done.overflow THEN {"path", "panic"} ELSE {"path"}

\* the state once game.move_rover_path(moves) ended as outcome, done being
\* what it leaves when it returns; the dust points of the path before go to
\* the record of the earlier paths
PathReturned(moves, done, outcome) ==
    /\ gargs' = [grid_top |-> Unwrap(game).grid_top, rover |-> Unwrap(game).rover,
                 moves |-> moves]
    /\ gcall' = outcome
    /\ game' = IF outcome = "panic" THEN game ELSE Some(done.game)
    /\ count' = IF outcome = "panic" THEN count ELSE done.count
    /\ path' = IF outcome = "panic" THEN path ELSE done.path
    /\ cleaned' = IF outcome = "panic" THEN cleaned ELSE cleaned \cup DustOn(path)
    /\ UNCHANGED dust
    /\ GameFrame

\* the call of move_rover_path that computed done ends in one of its outcomes
PathEnded(moves, done) ==
    \E outcome \in PathOutcomes(done) : PathReturned(moves, done, outcome)

\* game.move_rover_path(moves)
MovePath ==
    /\ gcall \in {"new", "path"}
    /\ \E moves \in MovePaths : PathEnded(moves, move_rover_path(Unwrap(game), moves))

NextGame == GameNew \/ MovePath

SpecGame == InitGame /\ [][NextGame]_vars

----------------------------------------------------------------------------
(* Node::sweep, Node::partition and Node::split_node applied to a node *)

InitSplit ==
    /\ FacadeIdle
    /\ GeomIdle
    /\ TileIdle
    /\ NodeIdle
    /\ GameIdle
    /\ scall = "idle"
    /\ sfill \in FillOperands
    /\ snode \in SplitOperands
    /\ sline = None
    /\ sres = NoSplitResult

SplitFrame ==
    UNCHANGED <<sfill, snode, facadeVars, geomVars, tileVars, nodeVars, gameVars>>

\* Node::sweep(tile_set, fill_factor) returned sw
SweepReturned(sw) ==
    /\ scall' = "sweep"
    /\ sres' = [NoSplitResult EXCEPT !.line = sw.line, !.panic = sw.panic]
    /\ UNCHANGED sline
    /\ SplitFrame

\* the tiles split_node hands to sweep: the coverage of every child
Sweep ==
    /\ scall = "idle"
    /\ snode.kind = "Node"
    /\ SweepReturned(sweep(coverages(snode.vector), sfill))

\* node.partition(line, fill_factor) returned done after its loop built loop
PartitionReturned(line, loop, done) ==
    /\ scall' = "partition"
    /\ sline' = Some(line)
    /\ sres' = [self |-> done.self, right |-> done.right, panic |-> done.panic,
                line |-> None, left_vec |-> loop.left_vec,
                right_vec |-> loop.right_vec]
    /\ SplitFrame

\* left_vec and right_vec when the loop of partition is over; a leaf returns
\* before it builds them
PartitionVectors(self, line, ff) ==
    IF self.kind = "Leaf"
    THEN [left_vec |-> <<>>, right_vec |-> <<>>, panic |-> FALSE]
    ELSE partition_loop(self.vector, line, ff)

Partition ==
    /\ scall = "idle"
    /\ \E line \in SplitLines :
        PartitionReturned(line, PartitionVectors(snode, line, sfill),
                          partition(snode, line, sfill))

\* node.split_node(fill_factor) returned done
SplitReturned(done) ==
    /\ scall' = "split_node"
    /\ sres' = [NoSplitResult EXCEPT !.self = done.self, !.right = done.right,
                                     !.panic = done.panic]
    /\ UNCHANGED sline
    /\ SplitFrame

SplitNode ==
    /\ scall = "idle"
    /\ SplitReturned(split_node(snode, sfill))

NextSplit == Sweep \/ Partition \/ SplitNode

SpecSplit == InitSplit /\ [][NextSplit]_vars

----------------------------------------------------------------------------
(* What the properties below read off the state *)

\* the points of the insert calls made so far
InsertedPoints == {calls[i].point : i \in 1..Len(calls)}

\* no point was inserted twice
DistinctPoints ==
    \A i, j \in 1..Len(calls) : i # j => calls[i].point # calls[j].point

\* the value of the most recent insert call made with point p
LatestValue(p) ==
    LET last == CHOOSE i \in 1..Len(calls) :
                    /\ calls[i].point = p
                    /\ \A j \in (i + 1)..Len(calls) : calls[j].point # p
    IN  calls[last].value

\* the leaves of a subtree, as a set of [point, data] records
RECURSIVE LeavesOf(_)
LeavesOf(n) ==
    IF n.kind = "Leaf" THEN {[point |-> n.point, data |-> n.data]}
    ELSE UNION {LeavesOf(n.vector[i]) : i \in 1..Len(n.vector)}

Bindings(rt) == IF IsSome(rt) THEN LeavesOf(Unwrap(rt)) ELSE {}
BoundPoints(rt) == {b.point : b \in Bindings(rt)}
BoundValue(rt, p) == (CHOOSE b \in Bindings(rt) : b.point = p).data

RECURSIVE SumOver(_, _)
SumOver(f, n) == IF n = 0 THEN 0 ELSE f[n] + SumOver(f, n - 1)

\* the number of nodes, leaves and Interior nodes together, of a subtree
RECURSIVE CountNodes(_)
CountNodes(n) ==
    IF n.kind = "Leaf" THEN 1
    ELSE 1 + SumOver([i \in 1..Len(n.vector) |-> CountNodes(n.vector[i])],
                     Len(n.vector))

\* the number of leaves of a subtree
RECURSIVE CountLeaves(_)
CountLeaves(n) ==
    IF n.kind = "Leaf" THEN 1
    ELSE SumOver([i \in 1..Len(n.vector) |-> CountLeaves(n.vector[i])],
                 Len(n.vector))

NodeCount(rt) == IF IsSome(rt) THEN CountNodes(Unwrap(rt)) ELSE 0
LeafCount(rt) == IF IsSome(rt) THEN CountLeaves(Unwrap(rt)) ELSE 0

\* every Interior node of the subtree stores the union of its children's coverage
RECURSIVE CoverageHolds(_)
CoverageHolds(n) ==
    \/ n.kind = "Leaf"
    \/ /\ Some(n.coverage) = bounding_tile(coverages(n.vector))
       /\ \A i \in 1..Len(n.vector) : CoverageHolds(n.vector[i])

\* component-wise order of two points
Below(a, b) == a.x <= b.x /\ a.y <= b.y

----------------------------------------------------------------------------
(* C1..C10 *)

\* C1 (round trip): when the points inserted so far are pairwise distinct, a
\* find of an inserted point returns the value that was inserted with it.
C1_RoundTrip ==
    (op = "find" /\ DistinctPoints /\ Unwrap(arg) \in InsertedPoints)
        => ret = Some(LatestValue(Unwrap(arg)))

\* C2: find and find_mut return None for every point that was never inserted,
\* on a non-empty tree too.
C2_NeverInsertedIsNone ==
    (op \in {"find", "find_mut"} /\ Unwrap(arg) \notin InsertedPoints)
        => ret = None

\* C3: insert returns Some(old value) exactly when the tree held a binding
\* for that point when it was called; when it held none, insert returns None
\* and every binding the tree held is still there with its value.
C3_InsertReturnsOldIffBound ==
    op = "insert" =>
        /\ IsSome(ret) <=> Unwrap(arg) \in BoundPoints(before)
        /\ Unwrap(arg) \in BoundPoints(before)
              => ret = Some(BoundValue(before, Unwrap(arg)))
        /\ Unwrap(arg) \notin BoundPoints(before)
              => ret = None /\ Bindings(before) \subseteq Bindings(root)

\* C4 (replacement): an insert of a point the tree already binds returns the
\* value stored before, leaves the tree with as many nodes and leaves as it
\* had, and a find of that point that follows returns the new value.
C4_Replacement ==
    /\ (op = "insert" /\ Unwrap(arg) \in BoundPoints(before))
          => /\ ret = Some(BoundValue(before, Unwrap(arg)))
             /\ NodeCount(root) = NodeCount(before)
             /\ LeafCount(root) = LeafCount(before)
    /\ (/\ op = "find"
        /\ calls # <<>>
        /\ arg = Some(calls[Len(calls)].point)
        /\ Unwrap(arg) \in BoundPoints(before))
          => ret = Some(calls[Len(calls)].value)

\* C5 (presence): after any sequence of inserts, a find of a point that was
\* inserted returns Some.
C5_Presence ==
    (op = "find" /\ Unwrap(arg) \in InsertedPoints) => IsSome(ret)

\* C6 (split scenario): once the eleven points of the scenario are inserted
\* with fill factor 4, the root is an Interior node.
C6_ScenarioRootIsInterior ==
    (fill_factor = DefaultFillFactor /\ Len(calls) = Len(ScenarioPoints))
        => IsSome(root) /\ Unwrap(root).kind = "Node"

\* C7 (empty tree): before any insert the tree is empty and find and find_mut
\* return None for every point; the first insert returns None and makes the
\* root a Leaf holding its point and value.
C7_EmptyTree ==
    /\ calls = <<>> => root = None
    /\ (calls = <<>> /\ op \in {"find", "find_mut"}) => ret = None
    /\ (Len(calls) = 1 /\ op = "insert")
          => /\ \A p \in Points : /\ RTree_find(before, p) = None
                                  /\ RTree_find_mut(before, p) = None
             /\ ret = None
             /\ root = Some(Leaf(calls[1].point, calls[1].value))

\* the first insert has returned
C7_Witness ==
    /\ Len(calls) = 1
    /\ op = "insert"
    /\ before = None
    /\ root = Some(Leaf(Unwrap(arg), 1))

\* C10 (dominance order of points): p == q iff both coordinates are equal;
\* partial_cmp is Equal iff p == q, Less iff p # q and p is below q on both
\* axes, Greater iff p # q and q is below p on both axes, None otherwise;
\* (5,2) and (4,3) are incomparable; p < q and q < p never both hold.
C10_PointOrder ==
    gop = "point_point" =>
        /\ gres.eq <=> (gp.x = gq.x /\ gp.y = gq.y)
        /\ gres.cmp = "Equal" <=> gres.eq
        /\ gres.cmp = "Less" <=> (~gres.eq /\ Below(gp, gq))
        /\ gres.cmp = "Greater" <=> (~gres.eq /\ Below(gq, gp))
        /\ gres.cmp = "None" <=> (~Below(gp, gq) /\ ~Below(gq, gp))
        /\ gres.lt <=> gres.cmp = "Less"
        /\ ~(gres.lt /\ gres.rev_lt)
        /\ (gp = Point_new(5, 2) /\ gq = Point_new(4, 3)) => gres.cmp = "None"

\* (5,2) has been compared with (4,3)
C10_Witness ==
    /\ gop = "point_point"
    /\ gp = Point_new(5, 2)
    /\ gq = Point_new(4, 3)
    /\ gres.cmp = "None"
    /\ ~gres.lt /\ ~gres.rev_lt

----------------------------------------------------------------------------
(* C11..C14: tiles *)

\* point p lies in the closed box of tile t
InBox(t, p) ==
    /\ t.bottom.x <= p.x /\ p.x <= t.top.x
    /\ t.bottom.y <= p.y /\ p.y <= t.top.y

\* tile t is reduced to the point p
ReducedTo(t, p) == t.bottom = p /\ t.top = p

\* tile a lies inside tile b
Inside(a, b) == Below(b.bottom, a.bottom) /\ Below(a.top, b.top)

\* C11 (tile against point): T.partial_cmp(p) is Equal iff T is reduced to p;
\* otherwise it is Greater iff p lies in the closed box of T, boundary
\* included; otherwise it is Less; it is never None.  With T = (0,0)-(10,10),
\* (5,5) gives Greater and (15,5) gives Less; the tile reduced to (3,3) gives
\* Equal for (3,3).
C11_TileAgainstPoint ==
    tcall = "tile_point" =>
        /\ tres.cmp # "None"
        /\ tres.cmp = "Equal" <=> ReducedTo(ta, tp)
        /\ tres.cmp = "Greater" <=> (~ReducedTo(ta, tp) /\ InBox(ta, tp))
        /\ tres.cmp = "Less" <=> ~InBox(ta, tp)
        /\ ta = Tile_new(Point_new(0, 0), Point_new(10, 10)).tile =>
              /\ tp = Point_new(5, 5) => tres.cmp = "Greater"
              /\ tp = Point_new(15, 5) => tres.cmp = "Less"
        /\ (ta = Tile_from_point(Point_new(3, 3)) /\ tp = Point_new(3, 3))
              => tres.cmp = "Equal"

\* a point of the boundary of a tile that is not reduced to a point has been
\* compared with the tile
C11_Witness ==
    /\ tcall = "tile_point"
    /\ ta.bottom # ta.top
    /\ tp = ta.top
    /\ tres.cmp = "Greater"

\* C12 (tile against tile): a.partial_cmp(b) is Equal iff both corners are
\* identical, Less iff a differs from b and lies inside b, Greater iff a
\* differs from b and b lies inside a, None otherwise; a == b holds exactly
\* in the Equal case.
C12_TileAgainstTile ==
    tcall = "tile_tile" =>
        /\ tres.cmp = "Equal" <=> (ta.bottom = tb.bottom /\ ta.top = tb.top)
        /\ tres.cmp = "Less" <=> (ta # tb /\ Inside(ta, tb))
        /\ tres.cmp = "Greater" <=> (ta # tb /\ Inside(tb, ta))
        /\ tres.cmp = "None" <=> (~Inside(ta, tb) /\ ~Inside(tb, ta))
        /\ tres.eq <=> tres.cmp = "Equal"

\* a tile has been compared with a different tile that lies inside it
C12_Witness ==
    /\ tcall = "tile_tile"
    /\ ta # tb
    /\ Inside(tb, ta)
    /\ tres.cmp = "Greater"
    /\ ~tres.eq

\* C13 (tile construction): Tile::new(bottom, top) panics iff bottom is not
\* below top on both axes, incomparable corners included, and otherwise
\* returns the tile with these corners; every tile built by new, from_point
\* or union has its bottom corner below its top corner on both axes.
C13_TileConstruction ==
    /\ tcall = "new" =>
          /\ tres.panic <=> ~Below(ta.bottom, tb.top)
          /\ ~tres.panic => (tres.tile.bottom = ta.bottom /\ tres.tile.top = tb.top)
    /\ (tcall \in {"new", "from_point", "union"} /\ ~tres.panic)
          => Below(tres.tile.bottom, tres.tile.top)

\* Tile::new has panicked on two corners that are incomparable
C13_Witness ==
    /\ tcall = "new"
    /\ ta.bottom.x < tb.top.x
    /\ ta.bottom.y > tb.top.y
    /\ tres.panic

\* C14 (axis projections): a.vertical_cmp(b) is Equal if the x intervals of
\* a and b overlap, Less if the x interval of a lies strictly before that of
\* b, Greater if it lies strictly after; horizontal_cmp is the same on the
\* y intervals.
C14_AxisProjections ==
    tcall = "axes" =>
        /\ (ta.bottom.x <= tb.top.x /\ tb.bottom.x <= ta.top.x)
              => tres.vertical = "Equal"
        /\ ta.top.x < tb.bottom.x => tres.vertical = "Less"
        /\ ta.bottom.x > tb.top.x => tres.vertical = "Greater"
        /\ (ta.bottom.y <= tb.top.y /\ tb.bottom.y <= ta.top.y)
              => tres.horizontal = "Equal"
        /\ ta.top.y < tb.bottom.y => tres.horizontal = "Less"
        /\ ta.bottom.y > tb.top.y => tres.horizontal = "Greater"

----------------------------------------------------------------------------
(* C15, C17..C20: nodes *)

\* the extent of a node: the point of a Leaf, the coverage of an Interior node
Extent(n) ==
    IF n.kind = "Leaf" THEN [bottom |-> n.point, top |-> n.point]
    ELSE n.coverage

\* the index of the first child whose extent holds point p, 0 if there is none
FirstHolding(vector, p) ==
    IF \E i \in 1..Len(vector) : InBox(Extent(vector[i]), p)
    THEN CHOOSE i \in 1..Len(vector) :
            /\ InBox(Extent(vector[i]), p)
            /\ \A j \in 1..(i - 1) : ~InBox(Extent(vector[j]), p)
    ELSE 0

\* an insert was applied to an Interior node that satisfies the coverage
\* invariant, with a fill factor of at least 2
InsertedIntoInterior ==
    /\ ncall = "insert"
    /\ nnode.kind = "Node"
    /\ nfill >= 2
    /\ CoverageHolds(nnode)

\* C15 (totality of insert): for a fill factor of at least 2 and an Interior
\* node whose subtree satisfies the coverage invariant, Node.insert and the
\* split_node, sweep and partition calls it makes never panic: the index
\* fill_factor of sweep is within the tile list, and the left children list
\* of every partition call is non-empty.
C15_InsertNeverPanics == InsertedIntoInterior => ~nres.panic

\* an insert has split a child that straddles the line and returned what the
\* recursive partition took out of it
C15_Witness ==
    /\ InsertedIntoInterior
    /\ ~nres.panic
    /\ IsSome(nres.overflow)
    /\ \E i \in 1..Len(nnode.vector) :
          /\ nnode.vector[i].kind = "Node"
          /\ PointsOf(Unwrap(nres.overflow)) \subseteq PointsOf(nnode.vector[i])

\* C17 (child selection): n >= q holds iff q lies inside or on the boundary
\* of the extent of n, which for a Leaf means that its point equals q and
\* for an Interior node that q is between the corners of its coverage on
\* both axes; n.partial_cmp(q) is Greater for a point the extent contains,
\* Less for a point outside, Equal for an extent reduced to q.
C17_ChildSelection ==
    ncall = "compare" =>
        /\ nres.ge <=> InBox(Extent(nnode), npoint)
        /\ nnode.kind = "Leaf" => (nres.ge <=> nnode.point = npoint)
        /\ nnode.kind = "Node" =>
              (nres.ge <=> (Below(nnode.coverage.bottom, npoint)
                               /\ Below(npoint, nnode.coverage.top)))
        /\ nres.cmp = "Equal" <=> ReducedTo(Extent(nnode), npoint)
        /\ nres.cmp = "Greater" <=>
              (~ReducedTo(Extent(nnode), npoint) /\ InBox(Extent(nnode), npoint))
        /\ nres.cmp = "Less" <=> ~InBox(Extent(nnode), npoint)

\* an Interior node has been compared with a point of the boundary of its
\* coverage
C17_Witness ==
    /\ ncall = "compare"
    /\ nnode.kind = "Node"
    /\ nnode.coverage.bottom # nnode.coverage.top
    /\ npoint = nnode.coverage.bottom
    /\ nres.ge
    /\ nres.cmp = "Greater"

\* the children of nnode other than child i are where they were, as they were
OthersUnchanged(i) ==
    \A j \in (1..Len(nnode.vector)) \ {i} :
        /\ j <= Len(nres.self.vector)
        /\ nres.self.vector[j] = nnode.vector[j]

\* C18 (descent or append): Node.insert on an Interior node descends into
\* exactly one child, the first in list order whose extent holds the point,
\* and leaves every other child unchanged; if no child qualifies it appends
\* a new Leaf(point, value) at the end of the children list and reports no
\* old value.
C18_DescentOrAppend ==
    (ncall = "insert" /\ nnode.kind = "Node" /\ ~nres.panic) =>
        IF FirstHolding(nnode.vector, npoint) # 0
        THEN /\ OthersUnchanged(FirstHolding(nnode.vector, npoint))
             /\ PointsOf(nres.self.vector[FirstHolding(nnode.vector, npoint)])
                    \subseteq PointsOf(nnode.vector[FirstHolding(nnode.vector, npoint)])
                                  \cup {npoint}
        ELSE /\ nres.self.vector = Append(nnode.vector, Leaf(npoint, InsertedValue))
             /\ nres.old_value = None

\* C18 as the code has it: Node.insert on an Interior node descends into the
\* first child in list order whose extent holds the point, and appends a new
\* Leaf(point, value) and reports no old value if no child qualifies; the
\* other children are left unchanged, and the new leaf is the last child,
\* when the node held fewer than fill_factor children before the call, so
\* that split_node has nothing to partition.
C18_DescentOrAppendWithRoom ==
    (ncall = "insert" /\ nnode.kind = "Node" /\ ~nres.panic) =>
        /\ FirstHolding(nnode.vector, npoint) = 0 => nres.old_value = None
        /\ Len(nnode.vector) < nfill =>
              IF FirstHolding(nnode.vector, npoint) # 0
              THEN /\ OthersUnchanged(FirstHolding(nnode.vector, npoint))
                   /\ PointsOf(nres.self.vector[FirstHolding(nnode.vector, npoint)])
                          \subseteq
                              PointsOf(nnode.vector[FirstHolding(nnode.vector, npoint)])
                                  \cup {npoint}
              ELSE nres.self.vector = Append(nnode.vector, Leaf(npoint, InsertedValue))

\* two children hold the point, the insert went into the first of them and
\* stored the point there
C18_Witness ==
    /\ ncall = "insert"
    /\ nnode.kind = "Node"
    /\ Len(nnode.vector) < nfill
    /\ ~nres.panic
    /\ Len(nnode.vector) = 2
    /\ InBox(Extent(nnode.vector[1]), npoint)
    /\ InBox(Extent(nnode.vector[2]), npoint)
    /\ npoint \notin PointsOf(nnode)
    /\ npoint \in PointsOf(nres.self.vector[1])
    /\ nres.self.vector[2] = nnode.vector[2]

\* C19 (split restores the fill factor): when Node.insert leaves an Interior
\* node with fill_factor + 1 children, split_node keeps at most fill_factor
\* of them in the node, so the node has at most fill_factor children when
\* Node.insert returns.
C19_SplitRestoresFill ==
    (ncall = "insert" /\ nnode.kind = "Node" /\ nfill >= 2 /\ ~nres.panic
        /\ Len(nnode.vector) <= nfill)
        => Len(nres.self.vector) <= nfill

\* C20 (coverage after insert): for an Interior node whose subtree satisfies
\* the coverage invariant, after Node.insert returns the coverage of the
\* node is the union of the coverage of its children, and so it is for every
\* Interior node under it and under the overflow node returned.
C20_CoverageAfterInsert ==
    (InsertedIntoInterior /\ ~nres.panic) =>
        /\ CoverageHolds(nres.self)
        /\ IsSome(nres.overflow) => CoverageHolds(Unwrap(nres.overflow))

----------------------------------------------------------------------------
(* C16: the dust count of a path *)

\* C16: move_rover_path returns the number of distinct dust points, among
\* those given to GameMap::new, that the rover stands on after at least one
\* move of the path; a dust point is counted at most once over the life of
\* the map, and a position that holds no dust is never counted.
C16_PathCountsDust ==
    gcall = "path" => count = Cardinality(DustOn(path) \ cleaned)

----------------------------------------------------------------------------
(* Properties of sweep, partition and split_node, checked under SpecSplit *)

\* the tiles sweep was given and the line it returned
SweptTiles == coverages(snode.vector)
SweptLine == Unwrap(sres.line)

\* the bottom-left coordinate of tile t on an axis
BottomOn(t, axis) == IF axis = "V" THEN t.bottom.x ELSE t.bottom.y
TopOn(t, axis) == IF axis = "V" THEN t.top.x ELSE t.top.y

\* how many tiles start strictly below, and at or below, coordinate c
StartBelow(tiles, axis, c) ==
    Cardinality({i \in 1..Len(tiles) : BottomOn(tiles[i], axis) < c})
StartAtOrBelow(tiles, axis, c) ==
    Cardinality({i \in 1..Len(tiles) : BottomOn(tiles[i], axis) <= c})

\* the bottom-left coordinate found at index ff (from 0) once the tiles are
\* sorted on the axis: at most ff tiles start below it, more than ff at or
\* below it
CutOn(tiles, axis, ff) ==
    CHOOSE c \in {BottomOn(tiles[i], axis) : i \in 1..Len(tiles)} :
        /\ StartBelow(tiles, axis, c) <= ff
        /\ StartAtOrBelow(tiles, axis, c) > ff

\* how many tiles a line at coordinate c crosses or touches
Straddling(tiles, axis, c) ==
    Cardinality({i \in 1..Len(tiles) :
                    BottomOn(tiles[i], axis) <= c /\ c <= TopOn(tiles[i], axis)})

\* C21 (sweep line choice): for more than fill_factor tiles, sweep returns the
\* vertical line through the bottom-left x found at index fill_factor of the
\* tiles sorted on x, unless the horizontal line built the same way on y
\* straddles strictly fewer tiles; equal costs give the vertical line; at most
\* fill_factor tiles start strictly below the returned line on its axis.
C21_SweepLineChoice ==
    (scall = "sweep" /\ Len(SweptTiles) > sfill) =>
        /\ ~sres.panic
        /\ IsSome(sres.line)
        /\ SweptLine =
              IF Straddling(SweptTiles, "H", CutOn(SweptTiles, "H", sfill))
                   < Straddling(SweptTiles, "V", CutOn(SweptTiles, "V", sfill))
              THEN [axis |-> "H", at |-> CutOn(SweptTiles, "H", sfill)]
              ELSE [axis |-> "V", at |-> CutOn(SweptTiles, "V", sfill)]
        /\ StartBelow(SweptTiles, SweptLine.axis, SweptLine.at) <= sfill

\* sweep preferred the horizontal line for a list of more than fill_factor
\* tiles, some of them not reduced to a point
C21_Witness ==
    /\ scall = "sweep"
    /\ Len(SweptTiles) > sfill
    /\ ~sres.panic
    /\ SweptLine.axis = "H"
    /\ \E i \in 1..Len(SweptTiles) : SweptTiles[i].bottom # SweptTiles[i].top

\* the line partition was given, and what the call did
GivenLine == Unwrap(sline)
Partitioned == scall = "partition" /\ ~sres.panic
OverLeaves(n) == \A i \in 1..Len(n.vector) : n.vector[i].kind = "Leaf"

\* C22 (partition as the tests assert): after partition on an Interior node
\* whose children are leaves, every retained child compares strictly Less
\* than the line and a leaf exactly on the line is returned as the right
\* sibling: the five leaves of the tests with the vertical line x = 6 return
\* Some(Leaf(6,0)) and keep 4 children, with the horizontal line y = 10 they
\* return Some(Leaf(3,10)) and keep 4 children.
C22_PartitionAsTested ==
    (Partitioned /\ snode.kind = "Node" /\ OverLeaves(snode)) =>
        /\ \A i \in 1..Len(sres.self.vector) :
               Node_partial_cmp_Line(sres.self.vector[i], GivenLine) = "Less"
        /\ (snode = TestNode /\ GivenLine = [axis |-> "V", at |-> 6]) =>
               /\ sres.right = Some(Leaf(Point_new(6, 0), StoredValue))
               /\ Len(sres.self.vector) = 4
        /\ (snode = TestNode /\ GivenLine = [axis |-> "H", at |-> 10]) =>
               /\ sres.right = Some(Leaf(Point_new(3, 10), StoredValue))
               /\ Len(sres.self.vector) = 4

\* the leaves of a subtree, as nodes
RECURSIVE LeavesAsNodes(_)
LeavesAsNodes(n) ==
    IF n.kind = "Leaf" THEN {n}
    ELSE UNION {LeavesAsNodes(n.vector[i]) : i \in 1..Len(n.vector)}

\* where node n lies with respect to the line: Less when its extent ends
\* before the line, Greater when it starts after it, Equal when it touches it
SideOf(n, line) ==
    IF TopOn(coverage(n), line.axis) < line.at THEN "Less"
    ELSE IF BottomOn(coverage(n), line.axis) > line.at THEN "Greater"
    ELSE "Equal"

RECURSIVE KeptChildren(_, _)
RECURSIVE MovedChildren(_, _)

\* what stays of an Equal child, and what leaves it (an Option)
KeptPart(n, line) ==
    IF n.kind = "Leaf" THEN n ELSE NodeOver(KeptChildren(n.vector, line))
MovedPart(n, line) ==
    IF n.kind = "Leaf" THEN None
    ELSE IF Len(MovedChildren(n.vector, line)) = 0 THEN None
    ELSE IF Len(MovedChildren(n.vector, line)) = 1
         THEN MovedChildren(n.vector, line)
    ELSE Some(NodeOver(MovedChildren(n.vector, line)))

\* the children that stay, in their original order: the Less ones as they
\* are, the Equal ones reduced to what stays of them
KeptChildren(vector, line) ==
    IF vector = <<>> THEN <<>>
    ELSE IF SideOf(Head(vector), line) = "Less"
         THEN <<Head(vector)>> \o KeptChildren(Tail(vector), line)
    ELSE IF SideOf(Head(vector), line) = "Equal"
         THEN <<KeptPart(Head(vector), line)>> \o KeptChildren(Tail(vector), line)
    ELSE KeptChildren(Tail(vector), line)

\* the nodes that go to the right side, in order: the Greater children as
\* they are, and what leaves each Equal child, if anything
MovedChildren(vector, line) ==
    IF vector = <<>> THEN <<>>
    ELSE IF SideOf(Head(vector), line) = "Greater"
         THEN <<Head(vector)>> \o MovedChildren(Tail(vector), line)
    ELSE IF SideOf(Head(vector), line) = "Equal"
         THEN MovedPart(Head(vector), line) \o MovedChildren(Tail(vector), line)
    ELSE MovedChildren(Tail(vector), line)

\* C23 (partition classification): partition keeps every child that is Less
\* than the line, moves every Greater child to the right side, and partitions
\* every Equal child recursively: what stays of it is kept at its place in the
\* original order and what leaves it, if anything, joins the right side; a
\* leaf exactly on the line stays and gives nothing to the right; partition on
\* a leaf returns None and leaves it unchanged.
C23_PartitionClassification ==
    /\ (Partitioned /\ snode.kind = "Node") =>
          /\ sres.self.vector = KeptChildren(snode.vector, GivenLine)
          /\ sres.left_vec = sres.self.vector
          /\ sres.right_vec = MovedChildren(snode.vector, GivenLine)
          /\ \A i \in 1..Len(snode.vector) :
                (snode.vector[i].kind = "Leaf"
                     /\ BottomOn(coverage(snode.vector[i]), GivenLine.axis)
                            = GivenLine.at) =>
                    /\ \E k \in 1..Len(sres.self.vector) :
                           sres.self.vector[k] = snode.vector[i]
                    /\ \A k \in 1..Len(sres.right_vec) :
                           snode.vector[i] \notin LeavesAsNodes(sres.right_vec[k])
    /\ (scall = "partition" /\ snode.kind = "Leaf") =>
          ~sres.panic /\ sres.right = None /\ sres.self = snode

\* partition returned for a node that has a leaf on the line, a Greater child
\* and an Equal Interior child of which a part left for the right side
C23_Witness ==
    /\ Partitioned
    /\ snode.kind = "Node"
    /\ \E i, j, k \in 1..Len(snode.vector) :
          /\ snode.vector[i].kind = "Leaf"
          /\ SideOf(snode.vector[i], GivenLine) = "Equal"
          /\ SideOf(snode.vector[j], GivenLine) = "Greater"
          /\ snode.vector[k].kind = "Node"
          /\ SideOf(snode.vector[k], GivenLine) = "Equal"
          /\ IsSome(MovedPart(snode.vector[k], GivenLine))
    /\ Len(sres.right_vec) = 2

\* the smallest and the largest element of a set of coordinates
Lowest(S) == CHOOSE m \in S : \A e \in S : m <= e
Highest(S) == CHOOSE m \in S : \A e \in S : m >= e

\* the smallest tile that covers every node of a non-empty list
BoxOver(vector) ==
    [bottom |-> [x |-> Lowest({coverage(vector[i]).bottom.x : i \in 1..Len(vector)}),
                 y |-> Lowest({coverage(vector[i]).bottom.y : i \in 1..Len(vector)})],
     top    |-> [x |-> Highest({coverage(vector[i]).top.x : i \in 1..Len(vector)}),
                 y |-> Highest({coverage(vector[i]).top.y : i \in 1..Len(vector)})]]

\* C24 (shape of the right sibling): when exactly one node is on the right
\* side, partition returns that node itself; when there are several, it
\* returns a new Interior node holding exactly those nodes, its coverage the
\* union of theirs; when there is none, it returns None.  In the three cases
\* the coverage of the current node becomes the union of the coverage of the
\* children it keeps.
C24_RightSiblingShape ==
    (Partitioned /\ snode.kind = "Node") =>
        /\ Len(sres.right_vec) = 1 => sres.right = Some(sres.right_vec[1])
        /\ Len(sres.right_vec) > 1 =>
              sres.right = Some(Interior(BoxOver(sres.right_vec), sres.right_vec))
        /\ Len(sres.right_vec) = 0 => sres.right = None
        /\ sres.self.kind = "Node"
        /\ sres.self.coverage = BoxOver(sres.self.vector)

\* partition returned a new Interior node over two nodes, and the coverage of
\* the current node shrank to the children it kept
C24_Witness ==
    /\ Partitioned
    /\ snode.kind = "Node"
    /\ Len(sres.right_vec) = 2
    /\ IsSome(sres.right)
    /\ Unwrap(sres.right).kind = "Node"
    /\ sres.self.coverage # snode.coverage

\* how many leaves of subtree n hold the entry e = [point, data]
RECURSIVE Occurrences(_, _)
Occurrences(n, e) ==
    IF n.kind = "Leaf"
    THEN IF n.point = e.point /\ n.data = e.data THEN 1 ELSE 0
    ELSE SumOver([i \in 1..Len(n.vector) |-> Occurrences(n.vector[i], e)],
                 Len(n.vector))

\* the same for an Option of a node
OccurrencesIn(rt, e) == IF IsSome(rt) THEN Occurrences(Unwrap(rt), e) ELSE 0

\* C26 (conservation under splitting): split_node and partition neither lose
\* nor duplicate entries: the multiset of (point, value) leaves of the node
\* after the call together with the returned sibling is the multiset of the
\* node before the call.
C26_SplitConservesEntries ==
    /\ scall = "split_node" => ~sres.panic
    /\ (scall \in {"partition", "split_node"} /\ ~sres.panic) =>
          \A e \in LeavesOf(snode) \cup LeavesOf(sres.self)
                                  \cup Bindings(sres.right) :
              Occurrences(snode, e)
                  = Occurrences(sres.self, e) + OccurrencesIn(sres.right, e)

\* split_node split a node: it took a leaf out of an Interior child and
\* returned it, the other leaves stayed
C26_Witness ==
    /\ scall = "split_node"
    /\ ~sres.panic
    /\ IsSome(sres.right)
    /\ \E i \in 1..Len(snode.vector) :
          /\ snode.vector[i].kind = "Node"
          /\ Bindings(sres.right) \cap LeavesOf(snode.vector[i]) # {}
    /\ LeavesOf(sres.self) # {}

----------------------------------------------------------------------------
(* The shape of the root, checked under Spec *)

\* C25 (implicit root shape): after any non-empty sequence of inserts on a
\* tree made by new() or with_radix(n), the root is a single Leaf holding the
\* point of the first insert and the value of the most recent one; no
\* sequence of calls makes an Interior root; every insert after the first
\* returns Some.
C25_ImplicitRootShape ==
    (calls # <<>> /\ op # "panic") =>
        /\ root = Some(Leaf(calls[1].point, calls[Len(calls)].value))
        /\ Unwrap(root).kind # "Node"
        /\ (op = "insert" /\ Len(calls) > 1) => IsSome(ret)

----------------------------------------------------------------------------
(* The arena of the grid walk, checked under SpecGame *)

\* p lies in the closed box (0,0)-grid_top
InArena(p, grid_top) ==
    /\ 0 <= p.x /\ p.x <= grid_top.x
    /\ 0 <= p.y /\ p.y <= grid_top.y

\* the position of the rover before move k of the last path
PositionBefore(k) == IF k = 1 THEN gargs.rover ELSE path[k - 1]

\* where move k of the last path is aimed at
TargetOf(k) == Point_add(PositionBefore(k), as_vector(gargs.moves[k]))

\* the distance between two points, counted in unit steps along the axes
StepsBetween(a, b) ==
    (IF a.x >= b.x THEN a.x - b.x ELSE b.x - a.x)
        + (IF a.y >= b.y THEN a.y - b.y ELSE b.y - a.y)

\* C27 (arena of the grid walk): GameMap::new succeeds only if the rover and
\* every dust point lie in the closed box (0,0)-grid_top, and returns
\* InvalidRoverPosition or InvalidDustPosition otherwise; after any sequence
\* of moves the rover is in the box; a move whose target is outside the box
\* leaves the rover where it is, any other move takes it to the target, one
\* unit away on one axis.
C27_ArenaInvariant ==
    /\ gcall # "panic"
    /\ gcall \in {"new", "InvalidRoverPosition", "InvalidDustPosition"} =>
          /\ gcall = "new" <=>
                /\ InArena(gargs.rover, gargs.grid_top)
                /\ \A i \in 1..Len(dust) : InArena(dust[i], gargs.grid_top)
          /\ gcall = "InvalidRoverPosition" <=>
                ~InArena(gargs.rover, gargs.grid_top)
          /\ IsSome(game) <=> gcall = "new"
    /\ gcall = "new" =>
          /\ Unwrap(game).rover = gargs.rover
          /\ Unwrap(game).grid_top = gargs.grid_top
    /\ IsSome(game) =>
          /\ InArena(Unwrap(game).rover, Unwrap(game).grid_top)
          /\ \A i \in 1..Len(dust) : InArena(dust[i], Unwrap(game).grid_top)
    /\ gcall = "path" =>
          /\ Unwrap(game).grid_top = gargs.grid_top
          /\ Len(path) = Len(gargs.moves)
          /\ Unwrap(game).rover = PositionBefore(Len(path) + 1)
          /\ \A k \in 1..Len(path) :
                IF InArena(TargetOf(k), gargs.grid_top)
                THEN /\ path[k] = TargetOf(k)
                     /\ StepsBetween(PositionBefore(k), path[k]) = 1
                     /\ path[k].x = PositionBefore(k).x
                            \/ path[k].y = PositionBefore(k).y
                ELSE path[k] = PositionBefore(k)

\* a path of two moves on a map with dust: the first one is aimed outside the
\* arena and leaves the rover in place, the second one moves it
C27_Witness ==
    /\ gcall = "path"
    /\ dust # <<>>
    /\ Len(gargs.moves) = 2
    /\ ~InArena(TargetOf(1), gargs.grid_top)
    /\ path[1] = gargs.rover
    /\ path[2] # path[1]

====
